---------------------------- MODULE Spec2Model ----------------------------
(***************************************************************************)
(* Model of src/main.py: the grid loader (load_cases), the linear lookup   *)
(* (find_case_for_point), the two classifiers (classify, CLASS10_COMMENTS) *)
(* and the two resolving endpoints (score_by_address, score_structured).   *)
(*                                                                         *)
(* Texts of the CSV file are sequences of one-character strings, so that   *)
(* strip(), replace(",", "."), int() and float() are modelled by what they *)
(* do on the characters.  Column names are sequences of tokens: blanks     *)
(* (" ") and name parts, e.g. <<"Score TC MTB 24h", "_Classe_10">>, so     *)
(* that strip() and endswith("_Classe_10") act on them as in the code.     *)
(*                                                                         *)
(* A Python float is a whole number of steps of 1/Unit (three decimal      *)
(* digits, and one halving for size / 2.0).  An optional value (None or a  *)
(* value v) is the sequence <<>> or <<v>>.                                 *)
(***************************************************************************)
EXTENDS Integers, Sequences, FiniteSets

VARIABLES
    source,    \* the file grid_scores.csv as the process finds it
    pc,        \* "start", "rows" (inside the for loop), "serving", "exit"
    row_idx,   \* the next data row the reader yields
    CASES,     \* the module-level list of cells
    exit_msg,  \* the SystemExit message, None while the process lives
    response   \* the outcome of the last request, None before the first

vars == <<source, pc, row_idx, CASES, exit_msg, response>>

\* Largest number of data rows of a source file of the geometry family.
MaxRows == 2

\* Largest number of data rows of a source file of the optional-column family.
MaxExtraRows == 1

\* Steps per 1.0 of the fixed-point image of a float.
Unit == 2 * 10 * 10 * 10

None == <<>>

Some(v) == <<v>>

Max(a, b) == IF a >= b THEN a ELSE b

---------------------------------------------------------------------------
(* Text conversions of the Python runtime used by load_cases.              *)

\* str.strip(): the text without its leading and trailing blanks.
Strip(s) ==
    LET idx == {i \in 1..Len(s) : s[i] # " "}
    IN  IF idx = {} THEN <<>>
        ELSE LET lo == CHOOSE i \in idx : \A j \in idx : i <= j
                 hi == CHOOSE i \in idx : \A j \in idx : i >= j
             IN  SubSeq(s, lo, hi)

\* str.replace(",", "."): every comma becomes a period.
ReplaceComma(s) == [i \in 1..Len(s) |-> IF s[i] = "," THEN "." ELSE s[i]]

Digits == {"0", "1", "2", "3", "4", "5", "6", "7", "8", "9"}

DigitVal(c) ==
    CASE c = "0" -> 0 [] c = "1" -> 1 [] c = "2" -> 2 [] c = "3" -> 3
      [] c = "4" -> 4 [] c = "5" -> 5 [] c = "6" -> 6 [] c = "7" -> 7
      [] c = "8" -> 8 [] c = "9" -> 9

\* The value of a run of decimal digits, most significant first.
RECURSIVE DigitsVal(_)
DigitsVal(ds) ==
    IF ds = <<>> THEN 0
    ELSE 10 * DigitsVal(SubSeq(ds, 1, Len(ds) - 1)) + DigitVal(ds[Len(ds)])

AllDigits(ds) == \A i \in 1..Len(ds) : ds[i] \in Digits

HasSign(s) == Len(s) > 0 /\ s[1] \in {"-", "+"}

Unsigned(s) == IF HasSign(s) THEN Tail(s) ELSE s

Signed(s, v) == IF HasSign(s) /\ s[1] = "-" THEN 0 - v ELSE v

\* int(text): None (TypeError) and every text that is not an optionally
\* signed run of digits between blanks fail; the result is <<n>> or <<>>.
ParseInt(opt) ==
    IF opt = None THEN None
    ELSE LET s == Strip(opt[1])
             b == Unsigned(s)
         IN  IF Len(b) > 0 /\ AllDigits(b) THEN Some(Signed(s, DigitsVal(b)))
             ELSE None

\* The fraction digits ds (at most three are carried) in steps of 1/Unit.
FracUnits(ds) ==
    LET d(i) == IF i <= Len(ds) THEN DigitVal(ds[i]) ELSE 0
    IN  (100 * d(1) + 10 * d(2) + d(3)) * (Unit \div 1000)

\* float(text) of a text whose commas were replaced: an optionally signed
\* decimal numeral with at most one period and at least one digit, between
\* blanks; the result is <<steps of 1/Unit>> or <<>> (ValueError).
ParseFloat(text) ==
    LET s    == Strip(text)
        b    == Unsigned(s)
        dots == {i \in 1..Len(b) : b[i] = "."}
    IN  IF Cardinality(dots) > 1 THEN None
        ELSE LET p  == IF dots = {} THEN Len(b) + 1 ELSE CHOOSE i \in dots : TRUE
                 ip == SubSeq(b, 1, p - 1)
                 fp == SubSeq(b, p + 1, Len(b))
             IN  IF AllDigits(ip) /\ AllDigits(fp) /\ Len(ip) + Len(fp) > 0
                 THEN Some(Signed(s, DigitsVal(ip) * Unit + FracUnits(fp)))
                 ELSE None

\* row[key].replace(",", ".") then float(): None has no replace
\* (AttributeError), which the except clause catches like a ValueError.
ParseDecimal(opt) ==
    IF opt = None THEN None ELSE ParseFloat(ReplaceComma(opt[1]))

---------------------------------------------------------------------------
(* Column names and the class-10 comments.                                 *)

COL_ID == <<"id">>

COL_X == <<"X_LB2008">>

COL_Y == <<"Y_LB2008">>

COL_LEN == <<"ms_len">>

PCT_TOTAL == <<"Score TC total sans TGV 24h", " %">>

PCT_TRAIN == <<"Score TC train (SNCB) 24h", " %">>

PCT_MTB == <<"Score TC MTB 24h", " %">>

CL_TOTAL == <<"Score TC total sans TGV 24h", "_Classe_10">>

CL_TRAIN == <<"Score TC train (SNCB) 24h", "_Classe_10">>

CL_MTB == <<"Score TC MTB 24h", "_Classe_10">>

required == <<COL_ID, COL_X, COL_Y, COL_LEN>>

optional_cols == <<PCT_TOTAL, PCT_TRAIN, PCT_MTB, CL_TOTAL, CL_TRAIN, CL_MTB>>

OptionalSet == {optional_cols[i] : i \in 1..Len(optional_cols)}

\* col.endswith("_Classe_10")
EndsWithClasse10(col) == Len(col) > 0 /\ col[Len(col)] = "_Classe_10"

CLASS10_COMMENTS ==
    [k \in 1..10 |->
        CASE k = 1 -> "Accessibilité très faible"
          [] k = 2 -> "Accessibilité faible"
          [] k = 3 -> "Inférieure à la moyenne"
          [] k = 4 -> "Légèrement inférieure à la moyenne"
          [] k = 5 -> "Moyenne"
          [] k = 6 -> "Légèrement supérieure à la moyenne"
          [] k = 7 -> "Bonne accessibilité"
          [] k = 8 -> "Très bonne accessibilité"
          [] k = 9 -> "Excellente accessibilité"
          [] k = 10 -> "Accessibilité exceptionnelle"]

---------------------------------------------------------------------------
(* load_cases: the header, the rows of csv.DictReader, one cell per row.   *)

\* header_map = {h.strip(): h for h in raw_headers}: the last raw header
\* with a given stripped name wins.
header_map(fieldnames) ==
    LET keys == {Strip(fieldnames[i]) : i \in 1..Len(fieldnames)}
        last(k) == CHOOSE i \in 1..Len(fieldnames) :
                       /\ Strip(fieldnames[i]) = k
                       /\ \A j \in 1..Len(fieldnames) :
                              Strip(fieldnames[j]) = k => j <= i
    IN  [k \in keys |-> fieldnames[last(k)]]

\* missing = [r for r in required if r not in header_map]
MissingColumns(fieldnames) ==
    SelectSeq(required, LAMBDA r : r \notin DOMAIN header_map(fieldnames))

\* One row of csv.DictReader: dict(zip(fieldnames, fields)), and None (the
\* restval) under every header the fields of a short row do not reach.  (A
\* blank line, which the reader passes over, is not among the sample rows.)
DictRow(fieldnames, fields) ==
    LET at(k) == {i \in 1..Len(fieldnames) : fieldnames[i] = k}
    IN  [k \in {fieldnames[i] : i \in 1..Len(fieldnames)} |->
            IF \E i \in at(k) : i > Len(fields) THEN None
            ELSE Some(fields[CHOOSE i \in at(k) : \A j \in at(k) : j <= i])]

\* The try block of a row: <<id_val, x_center, y_center, size>>, or None
\* when a conversion raises (the row is then skipped by "continue").
ConvertRow(hm, row) ==
    LET id_val   == ParseInt(row[hm[COL_ID]])
        x_center == ParseDecimal(row[hm[COL_X]])
        y_center == ParseDecimal(row[hm[COL_Y]])
        size     == ParseDecimal(row[hm[COL_LEN]])
    IN  IF id_val = None \/ x_center = None \/ y_center = None \/ size = None
        THEN None
        ELSE Some(<<id_val[1], x_center[1], y_center[1], size[1]>>)

\* Mutant of TruncToInt: the floor, which differs from int() below zero.
TruncToInt_floor(v) == v \div Unit

\* int(f) of a float f: the fraction is dropped, towards zero.
TruncToInt(v) == IF v >= 0 THEN v \div Unit ELSE 0 - ((0 - v) \div Unit)

\* round(f, 2): the nearest multiple of 0.01.  A decimal tie (third digit 5)
\* goes to the side the binary float lies on, which this fixed-point image
\* does not carry: both neighbours are possible results.
Round2(v) ==
    LET q  == Unit \div 100
        lo == (v \div q) * q
    IN  IF v = lo THEN {v}
        ELSE IF 2 * (v - lo) < q THEN {lo}
        ELSE IF 2 * (v - lo) > q THEN {lo + q}
        ELSE {lo, lo + q}

\* The values extras[col] can take for one optional column of one row.
ExtraValues(col, hm, row) ==
    LET raw_col_name == IF col \in DOMAIN hm THEN hm[col] ELSE col
    IN  IF /\ raw_col_name \in DOMAIN row
           /\ row[raw_col_name] # None
           /\ Strip(row[raw_col_name][1]) # <<>>
        THEN LET f == ParseFloat(ReplaceComma(row[raw_col_name][1]))
             IN  IF f = None THEN {None}
                 ELSE IF EndsWithClasse10(col) THEN {Some(TruncToInt(f[1]))}
                 ELSE {Some(r) : r \in Round2(f[1])}
        ELSE {None}

\* The values of the first n optional columns, in the order of the loop
\* "for col in optional_cols".
RECURSIVE ExtraLists(_, _, _)
ExtraLists(hm, row, n) ==
    IF n = 0 THEN {<<>>}
    ELSE {Append(vs, v) : vs \in ExtraLists(hm, row, n - 1),
                          v \in ExtraValues(optional_cols[n], hm, row)}

\* The "extras" dictionaries one row can produce.
ExtrasOf(hm, row) ==
    {[col \in OptionalSet |->
        vs[CHOOSE n \in 1..Len(optional_cols) : optional_cols[n] = col]] :
            vs \in ExtraLists(hm, row, Len(optional_cols))}

\* case = {...}: the cell of a converted row.
MakeCase(conv, extras) ==
    LET id_val   == conv[1]
        x_center == conv[2]
        y_center == conv[3]
        size     == conv[4]
        half     == size \div 2
    IN  [id       |-> id_val,
         score    |-> extras[CL_TOTAL],
         x_min    |-> x_center - half,
         x_max    |-> x_center + half,
         y_min    |-> y_center - half,
         y_max    |-> y_center + half,
         center_x |-> x_center,
         center_y |-> y_center,
         size     |-> size,
         extras   |-> extras]

---------------------------------------------------------------------------
(* Lookup, classification and the body of a resolved request.              *)

\* Mutant of CellContains: the upper bounds are inclusive too.
CellContains_closed(c, x, y) ==
    /\ c.x_min <= x /\ x <= c.x_max
    /\ c.y_min <= y /\ y <= c.y_max

\* (c["x_min"] <= x < c["x_max"]) and (c["y_min"] <= y < c["y_max"])
CellContains(c, x, y) ==
    /\ c.x_min <= x /\ x < c.x_max
    /\ c.y_min <= y /\ y < c.y_max

\* Mutant of find_case_for_point: the scan does not stop at the first
\* match, the last matching cell is returned.
RECURSIVE find_case_for_point_last(_, _, _)
find_case_for_point_last(cases, x, y) ==
    IF cases = <<>> THEN None
    ELSE IF CellContains(cases[Len(cases)], x, y) THEN Some(cases[Len(cases)])
    ELSE find_case_for_point_last(SubSeq(cases, 1, Len(cases) - 1), x, y)

\* for c in CASES: if ...: return c; return None
RECURSIVE find_case_for_point(_, _, _)
find_case_for_point(cases, x, y) ==
    IF cases = <<>> THEN None
    ELSE IF CellContains(Head(cases), x, y) THEN Some(Head(cases))
    ELSE find_case_for_point(Tail(cases), x, y)

\* Mutant of classify: the thresholds are strict.
classify_strict(score10) ==
    IF score10 = None THEN None
    ELSE IF score10[1] < 2 THEN Some("très faible")
    ELSE IF score10[1] < 4 THEN Some("faible à moyenne")
    ELSE IF score10[1] < 6 THEN Some("moyenne à correcte")
    ELSE IF score10[1] < 8 THEN Some("bonne à très bonne")
    ELSE Some("excellente")

classify(score10) ==
    IF score10 = None THEN None
    ELSE IF score10[1] <= 2 THEN Some("très faible")
    ELSE IF score10[1] <= 4 THEN Some("faible à moyenne")
    ELSE IF score10[1] <= 6 THEN Some("moyenne à correcte")
    ELSE IF score10[1] <= 8 THEN Some("bonne à très bonne")
    ELSE Some("excellente")

\* CLASS10_COMMENTS.get(k, None)
CommentOf(k) ==
    IF k # None /\ k[1] \in DOMAIN CLASS10_COMMENTS
    THEN Some(CLASS10_COMMENTS[k[1]])
    ELSE None

\* Mutant of build_accessibility_analysis: the comment of "train" is looked
\* up with the class of "total".
build_accessibility_analysis_copied(case) ==
    LET e == case.extras
    IN  [total |-> [percentile |-> e[PCT_TOTAL], score10 |-> e[CL_TOTAL],
                    score10_comment |-> CommentOf(e[CL_TOTAL])],
         train |-> [percentile |-> e[PCT_TRAIN], score10 |-> e[CL_TRAIN],
                    score10_comment |-> CommentOf(e[CL_TOTAL])],
         mtb   |-> [percentile |-> e[PCT_MTB], score10 |-> e[CL_MTB],
                    score10_comment |-> CommentOf(e[CL_MTB])]]

build_accessibility_analysis(case) ==
    LET e         == case.extras
        total_pct == e[PCT_TOTAL]
        train_pct == e[PCT_TRAIN]
        mtb_pct   == e[PCT_MTB]
        total10   == e[CL_TOTAL]
        train10   == e[CL_TRAIN]
        mtb10     == e[CL_MTB]
    IN  [total |-> [percentile |-> total_pct, score10 |-> total10,
                    score10_comment |-> CommentOf(total10)],
         train |-> [percentile |-> train_pct, score10 |-> train10,
                    score10_comment |-> CommentOf(train10)],
         mtb   |-> [percentile |-> mtb_pct, score10 |-> mtb10,
                    score10_comment |-> CommentOf(mtb10)]]

\* The outcome of a request: the endpoint, the projected point the
\* geocoder and the transformer gave (None when the geocoder found
\* nothing), the HTTP status, the error detail and the JSON body.
Reply(endpoint, point, status, detail, body) ==
    [endpoint |-> endpoint, point |-> point, status |-> status,
     detail |-> detail, body |-> body]

\* The common part of score_by_address and score_structured from the
\* geocoding on: geo is None (geocode_belgium raised 404) or <<<<x, y>>>>.
Resolve(endpoint, cases, geo) ==
    IF geo = None
    THEN Reply(endpoint, None, 404, "Adresse introuvable", None)
    ELSE LET x     == geo[1][1]
             y     == geo[1][2]
             found == find_case_for_point(cases, x, y)
         IN  IF found = None
             THEN Reply(endpoint, geo, 404,
                        "Adresse hors de la zone de la grille", None)
             ELSE LET case     == found[1]
                      score10  == case.score
                      analysis == build_accessibility_analysis(case)
                  IN  Reply(endpoint, geo, 200, "",
                        Some([lambert2008 |-> [x |-> x, y |-> y],
                              case |->
                                [id |-> case.id,
                                 score10 |-> score10,
                                 classe |-> classify(score10),
                                 center_lambert2008 |->
                                    [x_center |-> case.center_x,
                                     y_center |-> case.center_y],
                                 bounds_lambert2008 |->
                                    [x_min |-> case.x_min,
                                     x_max |-> case.x_max,
                                     y_min |-> case.y_min,
                                     y_max |-> case.y_max],
                                 size_meters |-> case.size],
                              accessibility_analysis |-> analysis]))

\* Mutant of score_by_address: the "if case is None" check is missing, so
\* case["score"] raises and the request ends as a server error.
score_by_address_unchecked(cases, geo) ==
    LET r == Resolve("score_by_address", cases, geo)
    IN  IF r.point # None /\ r.status = 404
        THEN [r EXCEPT !.status = 500, !.detail = "Internal Server Error"]
        ELSE r

score_by_address(cases, geo) == Resolve("score_by_address", cases, geo)

\* score_structured differs in how the address is put together (with or
\* without the city) before geocoding, and in the echo of its input.
score_structured(cases, geo) == Resolve("score_structured", cases, geo)

ping(cases) ==
    Reply("ping", None, 200, "", Some([ok |-> TRUE, nb_cases |-> Len(cases)]))

---------------------------------------------------------------------------
(* The source files the process is started on.  A data row is the sequence *)
(* of its field texts; a sample record lists one text per known column, in *)
(* the order of AllCols, and is laid out under a header by FieldsFor.      *)

AllCols == required \o optional_cols

\* The fields of record rec under the raw header fieldnames (a column the
\* record does not know gets the empty text).
FieldsFor(fieldnames, rec) ==
    [i \in 1..Len(fieldnames) |->
        IF \E k \in 1..Len(AllCols) : AllCols[k] = Strip(fieldnames[i])
        THEN rec[CHOOSE k \in 1..Len(AllCols) : AllCols[k] = Strip(fieldnames[i])]
        ELSE <<>>]

\* All sequences over S of length 0..n.
RECURSIVE SeqsUpTo(_, _)
SeqsUpTo(S, n) ==
    IF n = 0 THEN {<<>>}
    ELSE LET shorter == SeqsUpTo(S, n - 1)
         IN  shorter \cup {Append(q, r) : q \in shorter, r \in S}

File(fieldnames, rows) == [exists |-> TRUE, fieldnames |-> fieldnames, rows |-> rows]

\* The files with header fieldnames and at most n data rows drawn from S.
FilesOver(fieldnames, S, n) == {File(fieldnames, rows) : rows \in SeqsUpTo(S, n)}

MissingFile == [exists |-> FALSE, fieldnames |-> <<>>, rows |-> <<>>]

\* Geometry samples <<id, X_LB2008, Y_LB2008, ms_len, total class>>: unit
\* squares that touch, overlap, are empty or inverted, rows that do not
\* convert, and the one-cell grid of the end-to-end example.
GeomSamples ==
    {<<<<"1">>, <<"0">>, <<"0">>, <<"2">>, <<"7">>>>,
     <<<<"2">>, <<"2">>, <<"0">>, <<"2">>, <<"3">>>>,
     <<<<"3">>, <<"0">>, <<"2">>, <<"2">>, <<>>>>,
     <<<<"4">>, <<"0">>, <<"0">>, <<"4">>, <<"5">>>>,
     <<<<"5">>, <<"0">>, <<"0">>, <<"0">>, <<"1">>>>,
     <<<<"6">>, <<"0">>, <<"0">>, <<"-", "2">>, <<"1">>>>,
     <<<<"x">>, <<"0">>, <<"0">>, <<"2">>, <<"7">>>>,
     <<<<"7">>, <<"0">>, <<"0">>, <<"a", "b", "c">>, <<"7">>>>,
     <<<<"1">>, <<"1", "0", "0", "0">>, <<"1", "0", "0", "0">>, <<"1", "0", "0">>, <<"7">>>>,
     <<<<"8">>, <<"1", ",", "5">>, <<"0", ",", "5">>, <<"1">>, <<"2">>>>,
     <<<<"9">>, <<"0">>, <<"1", ",", "0", ",", "0">>, <<"2">>, <<"4">>>>,
     <<<<"1", "0">>, <<>>, <<"0">>, <<"2">>, <<"7">>>>}

GeomRecord(g) == <<g[1], g[2], g[3], g[4], <<>>, <<>>, <<>>, g[5], <<>>, <<>>>>

BaseRecord ==
    <<<<"1">>, <<"0">>, <<"0">>, <<"2">>,
      <<"4", "0", ",", "5">>, <<"2", "0">>, <<"6", "0", ",", "2", "5">>,
      <<"5">>, <<"3">>, <<"8">>>>

HeaderPlain == <<COL_ID, COL_X, COL_Y, COL_LEN, CL_TOTAL>>

\* Padded names in another order: strip() must find them.
HeaderPadded ==
    <<<<" ", "ms_len">>, COL_Y, <<"X_LB2008", " ">>, CL_TOTAL, <<" ", "id", " ">>>>

\* Headers load_cases refuses: none at all, ms_len absent, "ID" for "id".
BadHeaders ==
    {<<>>,
     <<COL_ID, COL_X, COL_Y, CL_TOTAL>>,
     <<<<"ID">>, COL_X, COL_Y, COL_LEN>>}

BadSources ==
    {MissingFile} \cup
    UNION {{File(h, <<>>), File(h, <<FieldsFor(h, BaseRecord)>>)} : h \in BadHeaders}

\* The rows of the geometry family under header h: every sample, and the
\* first sample cut after its third and after its fourth field.
GeomRows(h) ==
    LET full == {FieldsFor(h, GeomRecord(g)) : g \in GeomSamples}
        one  == FieldsFor(h, BaseRecord)
    IN  full \cup {SubSeq(one, 1, 3), SubSeq(one, 1, 4)}

GeomSources ==
    BadSources \cup
    UNION {FilesOver(h, GeomRows(h), MaxRows) : h \in {HeaderPlain, HeaderPadded}}

\* Texts of the optional columns: classes in and out of 1..10, fractions,
\* signs, blanks, texts that are no number; percentiles around a rounding
\* step.
ClassTotalTexts ==
    {<<"0">>, <<"1">>, <<"2">>,
     <<"3">>, <<"4">>, <<"5">>,
     <<"6">>, <<"7">>, <<"8">>,
     <<"9">>, <<"1", "0">>, <<"1", "1">>,
     <<"-", "1">>, <<"5", ",", "9">>, <<"-", "0", ",", "5">>,
     <<" ", "7", " ">>, <<"x">>, <<>>,
     <<" ">>, <<"+", "3">>}

ClassOtherTexts ==
    {<<"0">>, <<"5">>, <<"1", "0">>,
     <<"1", "1">>, <<"x">>, <<>>,
     <<"5", ",", "9">>}

PctTexts ==
    {<<"1", "2", ",", "3", "4", "6">>, <<"1", "2", ",", "3", "4", "4">>, <<"1", "2", ",", "3", "4", "5">>,
     <<"5", "0">>, <<"9", "9", ",", "9">>, <<>>,
     <<" ">>, <<"x">>, <<"1", ",", "2", ",", "3">>,
     <<"-", "0", ",", "0", "0", "4">>, <<"0", ".", "5">>}

PctOtherTexts ==
    {<<"1", "2", ",", "3", "4", "6">>, <<"5", "0">>, <<"x">>, <<>>}

\* rec with the text of column number k replaced by t.
WithField(rec, k, t) == [rec EXCEPT ![k] = t]

\* The optional-column family varies one optional field of BaseRecord at a
\* time.
ExtraRecords ==
    {BaseRecord}
    \cup {WithField(BaseRecord, 5, t) : t \in PctTexts}
    \cup {WithField(BaseRecord, k, t) : k \in 6..7, t \in PctOtherTexts}
    \cup {WithField(BaseRecord, 8, t) : t \in ClassTotalTexts}
    \cup {WithField(BaseRecord, k, t) : k \in 9..10, t \in ClassOtherTexts}

HeaderFull ==
    <<COL_ID, COL_X, COL_Y, COL_LEN, PCT_TOTAL, <<" ", PCT_TRAIN[1], PCT_TRAIN[2]>>,
      PCT_MTB, <<CL_TOTAL[1], CL_TOTAL[2], " ">>, CL_TRAIN, CL_MTB>>

\* No total columns at all, and a class column under a name in capitals.
HeaderPartial ==
    <<COL_ID, COL_X, COL_Y, COL_LEN, PCT_TRAIN, CL_TRAIN, PCT_MTB,
      <<"Score TC MTB 24h", "_CLASSE_10">>>>

ExtraRows(h) ==
    LET full == {FieldsFor(h, rec) : rec \in ExtraRecords}
        one  == FieldsFor(h, BaseRecord)
    IN  full \cup {SubSeq(one, 1, 4), SubSeq(one, 1, 6)}

ExtraSources ==
    BadSources \cup
    UNION {FilesOver(h, ExtraRows(h), MaxExtraRows) : h \in {HeaderFull, HeaderPartial}}

\* Projected points (steps of 1/Unit) the geocoder and the transformer can
\* yield: on and around the edges of the sample squares, inside the example
\* cell, and far away from every cell.
Far == 1000 * 1000

Points ==
    {<<x * Unit, y * Unit>> :
        <<x, y>> \in {<<-1, 0>>, <<0, 0>>, <<1, 0>>, <<0, -1>>, <<0, 1>>,
                      <<1, 1>>, <<2, 0>>, <<1020, 980>>, <<Far, Far>>}}

\* geocode_belgium: None when Nominatim finds nothing (404), else a point.
GeoOutcomes == {None} \cup {Some(p) : p \in Points}

---------------------------------------------------------------------------
(* The process: module import runs load_cases, then requests are served.   *)

Init ==
    /\ source \in GeomSources
    /\ pc = "start"
    /\ row_idx = 1
    /\ CASES = <<>>
    /\ exit_msg = None
    /\ response = None

InitExtras ==
    /\ source \in ExtraSources
    /\ pc = "start"
    /\ row_idx = 1
    /\ CASES = <<>>
    /\ exit_msg = None
    /\ response = None

\* The checks before the for loop: the message of the SystemExit raised on
\* file src, None when the loop is entered.
OpenFailure(src) ==
    IF ~src.exists THEN Some("Fichier CSV introuvable")
    ELSE IF src.fieldnames = <<>>
         THEN Some("Impossible de lire les en-têtes du CSV.")
    ELSE IF MissingColumns(src.fieldnames) # <<>>
         THEN Some("Colonnes manquantes dans grid_scores.csv")
    ELSE None

\* Mutant of RowCases: the except clause does not "continue", so a row that
\* fails to convert appends a cell again from the values of the row before.
RowCases_nocontinue(cases, fieldnames, fields) ==
    LET hm   == header_map(fieldnames)
        row  == DictRow(fieldnames, fields)
        conv == ConvertRow(hm, row)
    IN  IF conv = None
        THEN IF cases = <<>> THEN {cases} ELSE {Append(cases, cases[Len(cases)])}
        ELSE {Append(cases, MakeCase(conv[1], e)) : e \in ExtrasOf(hm, row)}

\* The lists CASES can be after the body of the for loop ran on one row:
\* unchanged when a conversion raised, else with the row's cell appended.
RowCases(cases, fieldnames, fields) ==
    LET hm   == header_map(fieldnames)
        row  == DictRow(fieldnames, fields)
        conv == ConvertRow(hm, row)
    IN  IF conv = None THEN {cases}
        ELSE {Append(cases, MakeCase(conv[1], e)) : e \in ExtrasOf(hm, row)}

\* Mutant of EndFailure: the empty list is not checked.
EndFailure_unchecked(cases) == None

\* The check after the loop: the SystemExit message, None when the import
\* goes on to define the endpoints.
EndFailure(cases) ==
    IF cases = <<>>
    THEN Some("Aucune case valide trouvée dans grid_scores.csv.")
    ELSE None

\* load_cases up to the for loop.
OpenCsv ==
    /\ pc = "start"
    /\ LET failure == OpenFailure(source)
       IN  /\ pc' = IF failure = None THEN "rows" ELSE "exit"
           /\ exit_msg' = failure
    /\ UNCHANGED <<source, row_idx, CASES, response>>

\* One iteration of "for row in reader".
LoadRow ==
    /\ pc = "rows"
    /\ row_idx <= Len(source.rows)
    /\ CASES' \in RowCases(CASES, source.fieldnames, source.rows[row_idx])
    /\ row_idx' = row_idx + 1
    /\ UNCHANGED <<source, pc, exit_msg, response>>

\* The reader is exhausted: "if not CASES: raise SystemExit", else the
\* module finishes loading and the application serves.
EndLoad ==
    /\ pc = "rows"
    /\ row_idx > Len(source.rows)
    /\ LET failure == EndFailure(CASES)
       IN  /\ pc' = IF failure = None THEN "serving" ELSE "exit"
           /\ exit_msg' = failure
    /\ UNCHANGED <<source, row_idx, CASES, response>>

Ping ==
    /\ pc = "serving"
    /\ response' = Some(ping(CASES))
    /\ UNCHANGED <<source, pc, row_idx, CASES, exit_msg>>

\* Mutant of ScoreByAddress: the handler moves the cell it found to the
\* front of CASES.
ScoreByAddress_reorder ==
    /\ pc = "serving"
    /\ \E geo \in GeoOutcomes :
          /\ response' = Some(score_by_address(CASES, geo))
          /\ CASES' =
                IF geo = None \/ find_case_for_point(CASES, geo[1][1], geo[1][2]) = None
                THEN CASES
                ELSE LET c == find_case_for_point(CASES, geo[1][1], geo[1][2])[1]
                     IN  <<c>> \o SelectSeq(CASES, LAMBDA d : d # c)
    /\ UNCHANGED <<source, pc, row_idx, exit_msg>>

ScoreByAddress ==
    /\ pc = "serving"
    /\ \E geo \in GeoOutcomes : response' = Some(score_by_address(CASES, geo))
    /\ UNCHANGED <<source, pc, row_idx, CASES, exit_msg>>

ScoreStructured ==
    /\ pc = "serving"
    /\ \E geo \in GeoOutcomes : response' = Some(score_structured(CASES, geo))
    /\ UNCHANGED <<source, pc, row_idx, CASES, exit_msg>>

Next ==
    \/ OpenCsv
    \/ LoadRow
    \/ EndLoad
    \/ Ping
    \/ ScoreByAddress
    \/ ScoreStructured

\* Started on a file of the geometry family.
Spec == Init /\ [][Next]_vars

\* Started on a file of the optional-column family.
SpecExtras == InitExtras /\ [][Next]_vars

---------------------------------------------------------------------------
(* Properties.                                                             *)

\* The last request was resolved for a projected point.
Resolved == response # None /\ response[1].point # None

ReqX == response[1].point[1][1]

ReqY == response[1].point[1][2]

Found == Resolved /\ response[1].status = 200

NotCovered ==
    /\ Resolved
    /\ response[1].status = 404
    /\ response[1].detail = "Adresse hors de la zone de la grille"
    /\ response[1].body = None

\* The positions of the cells whose half-open square holds (x, y).
Hits(x, y) ==
    {i \in 1..Len(CASES) :
        /\ CASES[i].x_min <= x /\ x < CASES[i].x_max
        /\ CASES[i].y_min <= y /\ y < CASES[i].y_max}

FirstHit(x, y) == CHOOSE i \in Hits(x, y) : \A j \in Hits(x, y) : i <= j

\* The body of the last response describes cell c.
Describes(c) ==
    /\ response[1].body[1].case.id = c.id
    /\ response[1].body[1].case.center_lambert2008 =
          [x_center |-> c.center_x, y_center |-> c.center_y]
    /\ response[1].body[1].case.bounds_lambert2008 =
          [x_min |-> c.x_min, x_max |-> c.x_max,
           y_min |-> c.y_min, y_max |-> c.y_max]
    /\ response[1].body[1].case.size_meters = c.size

\* C1: once the index is loaded, find_case_for_point on any point returns
\* the first cell in load order whose half-open square holds the point,
\* also when several cells hold it, and None exactly when no cell does;
\* a resolved request reports that first cell.
C1_FirstMatchInLoadOrder ==
    pc = "serving" =>
        /\ \A p \in Points :
              find_case_for_point(CASES, p[1], p[2]) =
                 IF Hits(p[1], p[2]) = {} THEN None
                 ELSE Some(CASES[FirstHit(p[1], p[2])])
        /\ Resolved =>
              IF Hits(ReqX, ReqY) = {} THEN NotCovered
              ELSE Found /\ Describes(CASES[FirstHit(ReqX, ReqY)])

\* Two different cells hold the requested point and the first one was
\* returned.
C1_Witness ==
    /\ pc = "serving"
    /\ Found
    /\ \E i, j \in Hits(ReqX, ReqY) :
          /\ i < j
          /\ CASES[i].id # CASES[j].id
          /\ response[1].body[1].case.id = CASES[i].id

\* A cell with an extent: a positive side on both axes.
HasExtent(c) == c.x_min < c.x_max /\ c.y_min < c.y_max

\* The one cell with center (0, 0) and size 2.
IsUnitExample(c) ==
    c.center_x = 0 /\ c.center_y = 0 /\ c.size = 2 * Unit

\* C5: once the index is loaded, a point on an upper bound of a cell never
\* matches that cell; for two cells with an extent that share an edge, a
\* point of the shared edge within the span of both matches the cell whose
\* lower bound the edge is and not the other one; and with the cell of
\* center (0, 0) and size 2 first in the index, (-1, 0) resolves to it and
\* (1, 0) does not.
C5_HalfOpenBoundary ==
    pc = "serving" =>
        /\ \A i \in 1..Len(CASES), p \in Points :
              (p[1] = CASES[i].x_max \/ p[2] = CASES[i].y_max)
                  => ~CellContains(CASES[i], p[1], p[2])
        /\ \A i, j \in 1..Len(CASES), p \in Points :
              /\ ( /\ HasExtent(CASES[i]) /\ HasExtent(CASES[j])
                   /\ CASES[i].x_max = CASES[j].x_min
                   /\ p[1] = CASES[i].x_max
                   /\ Max(CASES[i].y_min, CASES[j].y_min) <= p[2]
                   /\ p[2] < CASES[i].y_max /\ p[2] < CASES[j].y_max )
                 => ( /\ CellContains(CASES[j], p[1], p[2])
                      /\ ~CellContains(CASES[i], p[1], p[2]) )
              /\ ( /\ HasExtent(CASES[i]) /\ HasExtent(CASES[j])
                   /\ CASES[i].y_max = CASES[j].y_min
                   /\ p[2] = CASES[i].y_max
                   /\ Max(CASES[i].x_min, CASES[j].x_min) <= p[1]
                   /\ p[1] < CASES[i].x_max /\ p[1] < CASES[j].x_max )
                 => ( /\ CellContains(CASES[j], p[1], p[2])
                      /\ ~CellContains(CASES[i], p[1], p[2]) )
        /\ (Resolved /\ IsUnitExample(CASES[1])) =>
              /\ (ReqX = 0 - Unit /\ ReqY = 0) => (Found /\ Describes(CASES[1]))
              /\ (ReqX = Unit /\ ReqY = 0) => ~(Found /\ Describes(CASES[1]))

\* The index holds the example cell and its right neighbour, and the point
\* (1, 0) of their shared edge was resolved to the neighbour.
C5_Witness ==
    /\ pc = "serving"
    /\ Len(CASES) = 2
    /\ IsUnitExample(CASES[1])
    /\ HasExtent(CASES[2])
    /\ CASES[2].x_min = CASES[1].x_max
    /\ Found
    /\ ReqX = Unit /\ ReqY = 0
    /\ Describes(CASES[2])

\* The one-cell grid of the end-to-end example: id 1, center (1000, 1000),
\* size 100, score 7.
IsExampleGrid ==
    /\ Len(CASES) = 1
    /\ CASES[1].id = 1
    /\ CASES[1].center_x = 1000 * Unit /\ CASES[1].center_y = 1000 * Unit
    /\ CASES[1].size = 100 * Unit
    /\ CASES[1].score = Some(7)

\* C6: a request of either endpoint that reached the lookup ends 404
\* "hors de la zone" with no body exactly when find_case_for_point returns
\* None for its point; otherwise it ends 200 and carries the id, center,
\* bounds and size of the returned cell and that cell's score as headline
\* score.  On the example grid (1020, 980) gives id 1 with score 7 and the
\* far point gives not-found.
C6_NotFoundOrCell ==
    Resolved =>
        /\ response[1].endpoint \in {"score_by_address", "score_structured"}
        /\ NotCovered <=> Hits(ReqX, ReqY) = {}
        /\ LET f == find_case_for_point(CASES, ReqX, ReqY)
           IN  IF f = None THEN NotCovered
               ELSE /\ Found
                    /\ Describes(f[1])
                    /\ response[1].body[1].case.score10 = f[1].score
                    /\ response[1].body[1].lambert2008 = [x |-> ReqX, y |-> ReqY]
        /\ IsExampleGrid =>
              /\ (ReqX = 1020 * Unit /\ ReqY = 980 * Unit) =>
                    /\ Found
                    /\ response[1].body[1].case.id = 1
                    /\ response[1].body[1].case.score10 = Some(7)
              /\ (ReqX = Far * Unit /\ ReqY = Far * Unit) => NotCovered

\* The example: the one-cell grid answered (1020, 980) with id 1, score 7.
C6_Witness ==
    /\ IsExampleGrid
    /\ Found
    /\ response[1].endpoint = "score_by_address"
    /\ ReqX = 1020 * Unit /\ ReqY = 980 * Unit
    /\ response[1].body[1].case.id = 1
    /\ response[1].body[1].case.score10 = Some(7)

\* The required names the stripped header lacks.
LacksRequired ==
    \E r \in {COL_ID, COL_X, COL_Y, COL_LEN} :
        \A i \in 1..Len(source.fieldnames) : Strip(source.fieldnames[i]) # r

\* C2: a request is answered only in the serving state; the serving state
\* is reached only on an existing file with a header that has the four
\* required columns, after every row was read, with at least one cell in
\* the index; the process that left the load on a missing file, a missing
\* header, a missing required column or an empty index has exited with a
\* message and answers nothing.
C2_NeverServesEmptyIndex ==
    /\ response # None => pc = "serving"
    /\ pc = "serving" =>
          /\ source.exists
          /\ source.fieldnames # <<>>
          /\ ~LacksRequired
          /\ row_idx = Len(source.rows) + 1
          /\ Len(CASES) >= 1
          /\ exit_msg = None
    /\ (pc # "start" /\ (~source.exists \/ source.fieldnames = <<>> \/ LacksRequired))
          => (pc = "exit" /\ CASES = <<>>)
    /\ (pc \notin {"start", "rows"} /\ CASES = <<>>) => pc = "exit"
    /\ pc = "exit" => (exit_msg # None /\ response = None /\ CASES = <<>>)

\* A request was answered on a file of which one row was skipped.
C2_Witness ==
    /\ pc = "serving"
    /\ response # None
    /\ response[1].endpoint = "ping"
    /\ Len(CASES) = 1
    /\ Len(source.rows) = 2

\* The text of the field of row number i under required column col, None
\* when the row is too short to have it.
FieldText(i, col) ==
    LET at == {k \in 1..Len(source.fieldnames) : Strip(source.fieldnames[k]) = col}
        k  == CHOOSE a \in at : \A b \in at : b <= a
    IN  IF k <= Len(source.rows[i]) THEN Some(source.rows[i][k]) ELSE None

\* Row number i converts: its four required values parse.
Converts(i) ==
    /\ ParseInt(FieldText(i, COL_ID)) # None
    /\ ParseDecimal(FieldText(i, COL_X)) # None
    /\ ParseDecimal(FieldText(i, COL_Y)) # None
    /\ ParseDecimal(FieldText(i, COL_LEN)) # None

\* The numbers of the rows among the first n that convert, in file order.
RECURSIVE KeptRows(_)
KeptRows(n) ==
    IF n = 0 THEN <<>>
    ELSE IF Converts(n) THEN Append(KeptRows(n - 1), n) ELSE KeptRows(n - 1)

\* Cell c is the cell of row number i.
CellOfRow(c, i) ==
    /\ c.id = ParseInt(FieldText(i, COL_ID))[1]
    /\ c.center_x = ParseDecimal(FieldText(i, COL_X))[1]
    /\ c.center_y = ParseDecimal(FieldText(i, COL_Y))[1]
    /\ c.size = ParseDecimal(FieldText(i, COL_LEN))[1]

\* The texts of the sample rows that are no number.
NotANumber == {<<"x">>, <<"a", "b", "c">>, <<"1", ",", "0", ",", "0">>, <<>>}

\* C3: while and after the rows are read, the index is exactly the cells of
\* the rows read so far that convert, in file order; a row with a required
\* text that is no number, or too short to hold a required field, is not
\* among them; no row makes the process exit before the last row was read;
\* and a resolved request describes the cell of a row that converts.
C3_SkippedRowsLeaveNoCell ==
    (pc \in {"rows", "serving"} \/ (pc = "exit" /\ row_idx > 1)) =>
        LET kept == KeptRows(row_idx - 1)
        IN  /\ Len(CASES) = Len(kept)
            /\ \A k \in 1..Len(kept) : CellOfRow(CASES[k], kept[k])
            /\ \A i \in 1..(row_idx - 1) :
                  (\E col \in {COL_ID, COL_X, COL_Y, COL_LEN} :
                      \/ FieldText(i, col) = None
                      \/ FieldText(i, col)[1] \in NotANumber)
                  => \A k \in 1..Len(kept) : kept[k] # i
            /\ pc = "exit" => row_idx = Len(source.rows) + 1
            /\ Found => \E k \in 1..Len(kept) :
                           /\ Describes(CASES[k])
                           /\ CellOfRow(CASES[k], kept[k])

\* A file whose first row has a non-numeric ms_len and whose second row
\* converts was loaded, and a request found the cell of the second row.
C3_Witness ==
    /\ pc = "serving"
    /\ Len(source.rows) = 2
    /\ FieldText(1, COL_LEN) = Some(<<"a", "b", "c">>)
    /\ Len(CASES) = 1
    /\ Found
    /\ CellOfRow(CASES[1], 2)

\* C4 as claimed: after a successful load every cell has size > 0 and
\* x_min < x_max and y_min < y_max.
C4_Claim_PositiveSize ==
    pc = "serving" =>
        \A i \in 1..Len(CASES) :
            /\ CASES[i].size > 0
            /\ CASES[i].x_min < CASES[i].x_max
            /\ CASES[i].y_min < CASES[i].y_max

\* C7: in the serving state no step changes the index, the file position
\* or the state of the process, whatever request is served and whether it
\* is found or not; and a request for the point of the request before it,
\* by either endpoint, gets the same status, detail and body.
C7_ResolutionLeavesIndexUnchanged ==
    [][pc = "serving" =>
          /\ CASES' = CASES
          /\ pc' = "serving"
          /\ row_idx' = row_idx
          /\ source' = source
          /\ exit_msg' = exit_msg
          /\ (/\ response # None /\ response' # None
              /\ response[1].point # None
              /\ response'[1].point = response[1].point)
             => /\ response'[1].status = response[1].status
                /\ response'[1].detail = response[1].detail
                /\ response'[1].body = response[1].body]_vars

\* score_structured found a cell in an index of two cells.
C7_Witness ==
    /\ pc = "serving"
    /\ Len(CASES) = 2
    /\ Found
    /\ response[1].endpoint = "score_structured"
    /\ CASES[1].id # CASES[2].id
    /\ Hits(ReqX, ReqY) = {1, 2}

\* The stripped header has column col.
HasColumn(col) ==
    \E k \in 1..Len(source.fieldnames) : Strip(source.fieldnames[k]) = col

Abs(n) == IF n >= 0 THEN n ELSE 0 - n

\* v is what the cell of row number i must record for optional column col.
RecordsMetric(i, col, v) ==
    LET t == IF HasColumn(col) THEN FieldText(i, col) ELSE None
    IN  IF t = None \/ Strip(t[1]) = <<>> \/ ParseDecimal(t) = None
        THEN v = None
        ELSE LET f == ParseDecimal(t)[1]
             IN  /\ v # None
                 /\ IF col[Len(col)] = "_Classe_10"
                    THEN /\ f >= 0 => (v[1] * Unit <= f /\ f < (v[1] + 1) * Unit)
                         /\ f < 0 => ((v[1] - 1) * Unit < f /\ f <= v[1] * Unit)
                    ELSE /\ v[1] % (Unit \div 100) = 0
                         /\ 2 * Abs(v[1] - f) <= Unit \div 100

\* C8: every row of the optional-column family (its required values all
\* convert) gives a cell, whatever its optional texts; for each of the six
\* optional columns the cell records None when the column is not in the
\* header, the text is missing or blank after trimming, or does not parse;
\* otherwise a "_Classe_10" column records the value with its fraction cut
\* off towards zero and any other column a multiple of 0.01 at most 0.005
\* from the value; the cell's score is its recorded total class.
C8_OptionalColumns ==
    pc \in {"rows", "serving"} =>
        /\ Len(CASES) = row_idx - 1
        /\ \A i \in 1..Len(CASES) :
              /\ CellOfRow(CASES[i], i)
              /\ \A col \in {PCT_TOTAL, PCT_TRAIN, PCT_MTB, CL_TOTAL, CL_TRAIN, CL_MTB} :
                    RecordsMetric(i, col, CASES[i].extras[col])
              /\ CASES[i].score = CASES[i].extras[CL_TOTAL]

\* A row with total class text "-0,5" was loaded under the full header: its
\* cell records class 0 as score and keeps the other metrics.
C8_Witness ==
    /\ pc = "serving"
    /\ source.fieldnames = HeaderFull
    /\ Len(CASES) = 1
    /\ FieldText(1, CL_TOTAL) = Some(<<"-", "0", ",", "5">>)
    /\ CASES[1].score = Some(0)
    /\ CASES[1].extras[CL_MTB] = Some(8)
    /\ CASES[1].extras[PCT_TRAIN] = Some(20 * Unit)

\* The comment the class value k (None or <<n>>) must get.
ExpectedComment(k) ==
    IF k # None /\ k[1] >= 1 /\ k[1] <= 10 THEN Some(CLASS10_COMMENTS[k[1]])
    ELSE None

\* Entry m of the breakdown passes through percentile p and class k.
MetricEntryOk(m, p, k) ==
    /\ m.percentile = p
    /\ m.score10 = k
    /\ m.score10_comment = ExpectedComment(k)
    /\ k = Some(5) => m.score10_comment = Some("Moyenne")
    /\ (k = None \/ k = Some(0) \/ k = Some(11)) => m.score10_comment = None

\* C9: in the body of a resolved request each of total, train and mtb
\* carries the percentile and the class of the found cell unchanged, with
\* the phrase of CLASS10_COMMENTS for a class in 1..10 ("Moyenne" for 5)
\* and None for a class that is None or outside 1..10; the ten phrases are
\* ten different texts.
C9_Class10Comments ==
    Found =>
        LET c == CASES[FirstHit(ReqX, ReqY)]
            a == response[1].body[1].accessibility_analysis
        IN  /\ MetricEntryOk(a.total, c.extras[PCT_TOTAL], c.extras[CL_TOTAL])
            /\ MetricEntryOk(a.train, c.extras[PCT_TRAIN], c.extras[CL_TRAIN])
            /\ MetricEntryOk(a.mtb, c.extras[PCT_MTB], c.extras[CL_MTB])
            /\ Cardinality({CLASS10_COMMENTS[k] : k \in 1..10}) = 10

\* A resolved cell whose total class is 11 (no comment) and whose train
\* class 3 has its comment.
C9_Witness ==
    /\ Found
    /\ response[1].body[1].accessibility_analysis.total.score10 = Some(11)
    /\ response[1].body[1].accessibility_analysis.total.score10_comment = None
    /\ response[1].body[1].accessibility_analysis.train.score10_comment =
          Some("Inférieure à la moyenne")

\* The five labels in ascending order.
Labels ==
    <<"très faible", "faible à moyenne", "moyenne à correcte",
      "bonne à très bonne", "excellente">>

\* The position of an optional label in Labels (0 when it is none of them).
Rank(l) ==
    IF l # None /\ \E k \in 1..Len(Labels) : Labels[k] = l[1]
    THEN CHOOSE k \in 1..Len(Labels) : Labels[k] = l[1]
    ELSE 0

\* Integer scores in and around 1..10.
ScoreRange == -3..13

\* C10: in the body of a resolved request "classe" is None exactly when the
\* headline score is None, the headline score is the found cell's score,
\* and an integer score gets the label of its band (<= 2, <= 4, <= 6, <= 8,
\* above); classify gives one of the five labels for every integer score,
\* also outside 1..10, and never a lower label for a higher score.
C10_HeadlineLabel ==
    /\ Found =>
          LET s == response[1].body[1].case.score10
              l == response[1].body[1].case.classe
          IN  /\ s = CASES[FirstHit(ReqX, ReqY)].score
              /\ (l = None) <=> (s = None)
              /\ s # None =>
                    /\ Rank(l) = (CASE s[1] <= 2 -> 1
                                    [] s[1] \in 3..4 -> 2
                                    [] s[1] \in 5..6 -> 3
                                    [] s[1] \in 7..8 -> 4
                                    [] OTHER -> 5)
                    /\ \A t \in ScoreRange :
                          /\ t <= s[1] => Rank(classify(Some(t))) <= Rank(l)
                          /\ t >= s[1] => Rank(classify(Some(t))) >= Rank(l)
    /\ pc = "serving" => \A t \in ScoreRange : Rank(classify(Some(t))) \in 1..5

\* A resolved cell with the out-of-range score -1, labelled "très faible".
C10_Witness ==
    /\ Found
    /\ response[1].body[1].case.score10 = Some(0 - 1)
    /\ response[1].body[1].case.classe = Some("très faible")

=============================================================================
